---- MODULE Spec2Model ----
(***************************************************************************)
(* A model of signac's JSON backend for synced collections                 *)
(* (src/signac/core/collection_json.py): key coercion, serialisation, the  *)
(* buffered and unbuffered load/sync paths and the two write modes of      *)
(* _write_to_file, down to the file-system steps a reader or a crash can   *)
(* observe.                                                                *)
(***************************************************************************)
EXTENDS Integers, Sequences, FiniteSets, TLC

(***************************************************************************)
(* Value trees: what to_base() hands to the backend.  A mapping is the     *)
(* sequence of its items in insertion order, its keys pairwise distinct.   *)
(***************************************************************************)
Null == [t |-> "null"]
Num(n) == [t |-> "int", i |-> n]
Str(s) == [t |-> "str", s |-> s]
List(items) == [t |-> "list", items |-> items]
Dict(pairs) == [t |-> "dict", pairs |-> pairs]
Item(k, v) == [k |-> k, v |-> v]

\* A value json cannot encode (an arbitrary Python object).
Obj == [t |-> "obj"]

\* Python's str() on the integers the model uses as keys.
IntToStr == [n \in 0 .. 2 |-> CASE n = 0 -> "0" [] n = 1 -> "1" [] n = 2 -> "2"]

PyStr(key) == IF key.t = "int" THEN IntToStr[key.i] ELSE key.s

\* d[k] = v on an insertion-ordered dict: an existing key keeps its place.
DictPut(pairs, k, v) ==
  IF \E j \in 1 .. Len(pairs) : pairs[j].k = k
    THEN [j \in 1 .. Len(pairs) |-> IF pairs[j].k = k THEN Item(k, v) ELSE pairs[j]]
    ELSE Append(pairs, Item(k, v))

\* The nested _str_key of _convert_key_to_str: the key it returns.
_str_key(key) == IF key.t # "str" THEN Str(PyStr(key)) ELSE key

\* The nested _str_key of _convert_key_to_str: the warnings.warn calls it makes.
_str_key_warnings(key) == IF key.t # "str" THEN 1 ELSE 0

RECURSIVE _convert_key_to_str(_)
_convert_key_to_str(data) ==
  IF data.t = "dict"
    THEN LET RECURSIVE Comp(_, _)
             Comp(j, acc) ==
               IF j > Len(data.pairs) THEN acc
               ELSE Comp(j + 1, DictPut(acc, _str_key(data.pairs[j].k),
                                        _convert_key_to_str(data.pairs[j].v)))
         IN Dict(Comp(1, <<>>))
    ELSE IF data.t = "list"
      THEN List([j \in 1 .. Len(data.items) |-> _convert_key_to_str(data.items[j])])
      ELSE data

\* The number of warnings.warn calls one call of _convert_key_to_str makes.
RECURSIVE _convert_key_to_str_warnings(_)
_convert_key_to_str_warnings(data) ==
  IF data.t = "dict"
    THEN LET RECURSIVE Sum(_)
             Sum(j) ==
               IF j > Len(data.pairs) THEN 0
               ELSE _str_key_warnings(data.pairs[j].k)
                    + _convert_key_to_str_warnings(data.pairs[j].v) + Sum(j + 1)
         IN Sum(1)
    ELSE IF data.t = "list"
      THEN LET RECURSIVE Sum(_)
               Sum(j) ==
                 IF j > Len(data.items) THEN 0
                 ELSE _convert_key_to_str_warnings(data.items[j]) + Sum(j + 1)
           IN Sum(1)
      ELSE 0

(***************************************************************************)
(* json.dumps(data).encode() and json.loads(blob).  A blob is the sequence *)
(* of the JSON text's tokens; a partly written file holds a prefix of it.  *)
(***************************************************************************)
Punct(c) == [p |-> c]
NumTok(n) == [num |-> n]
StrTok(s) == [str |-> s]

\* json.dumps writes an int key as the string of its digits.
KeyTok(key) == StrTok(PyStr(key))

RECURSIVE Dumps(_)
Dumps(data) ==
  CASE data.t = "null" -> <<Punct("null")>>
    [] data.t = "int" -> <<NumTok(data.i)>>
    [] data.t = "str" -> <<StrTok(data.s)>>
    [] data.t = "list" ->
         LET RECURSIVE Items(_)
             Items(j) ==
               IF j > Len(data.items) THEN <<>>
               ELSE (IF j > 1 THEN <<Punct(",")>> ELSE <<>>)
                    \o Dumps(data.items[j]) \o Items(j + 1)
         IN <<Punct("[")>> \o Items(1) \o <<Punct("]")>>
    [] data.t = "dict" ->
         LET RECURSIVE Members(_)
             Members(j) ==
               IF j > Len(data.pairs) THEN <<>>
               ELSE (IF j > 1 THEN <<Punct(",")>> ELSE <<>>)
                    \o <<KeyTok(data.pairs[j].k), Punct(":")>>
                    \o Dumps(data.pairs[j].v) \o Members(j + 1)
         IN <<Punct("{")>> \o Members(1) \o <<Punct("}")>>

\* json.dumps raises TypeError on a tree that holds a value it cannot encode.
RECURSIVE Encodable(_)
Encodable(data) ==
  CASE data.t = "obj" -> FALSE
    [] data.t = "list" -> \A j \in 1 .. Len(data.items) : Encodable(data.items[j])
    [] data.t = "dict" -> \A j \in 1 .. Len(data.pairs) : Encodable(data.pairs[j].v)
    [] OTHER -> TRUE

\* File and buffer contents: bytes, Python's None, or no file at all.
Bytes(toks) == [k |-> "bytes", b |-> toks]
None == [k |-> "none"]
Missing == [k |-> "missing"]

ParseFail == [ok |-> FALSE]
Parsed(v, next) == [ok |-> TRUE, v |-> v, next |-> next]

IsTok(toks, pos, tok) == pos <= Len(toks) /\ toks[pos] = tok

\* The recursive-descent decoder of json.loads, one value from position pos.
RECURSIVE ParseValue(_, _)
ParseValue(toks, pos) ==
  IF pos > Len(toks) THEN ParseFail
  ELSE LET tok == toks[pos]
           RECURSIVE ParseItems(_, _)
           ParseItems(p, acc) ==
             LET r == ParseValue(toks, p)
             IN IF ~r.ok THEN ParseFail
                ELSE IF IsTok(toks, r.next, Punct(","))
                  THEN ParseItems(r.next + 1, Append(acc, r.v))
                ELSE IF IsTok(toks, r.next, Punct("]"))
                  THEN Parsed(List(Append(acc, r.v)), r.next + 1)
                ELSE ParseFail
           RECURSIVE ParseMembers(_, _)
           ParseMembers(p, acc) ==
             IF ~(p + 1 <= Len(toks) /\ DOMAIN toks[p] = {"str"}
                  /\ toks[p + 1] = Punct(":"))
               THEN ParseFail
               ELSE LET r == ParseValue(toks, p + 2)
                        put == IF r.ok THEN DictPut(acc, Str(toks[p].str), r.v) ELSE acc
                    IN IF ~r.ok THEN ParseFail
                       ELSE IF IsTok(toks, r.next, Punct(","))
                         THEN ParseMembers(r.next + 1, put)
                       ELSE IF IsTok(toks, r.next, Punct("}"))
                         THEN Parsed(Dict(put), r.next + 1)
                       ELSE ParseFail
       IN CASE DOMAIN tok = {"num"} -> Parsed(Num(tok.num), pos + 1)
            [] DOMAIN tok = {"str"} -> Parsed(Str(tok.str), pos + 1)
            [] tok = Punct("null") -> Parsed(Null, pos + 1)
            [] tok = Punct("[") ->
                 IF IsTok(toks, pos + 1, Punct("]")) THEN Parsed(List(<<>>), pos + 2)
                 ELSE ParseItems(pos + 1, <<>>)
            [] tok = Punct("{") ->
                 IF IsTok(toks, pos + 1, Punct("}")) THEN Parsed(Dict(<<>>), pos + 2)
                 ELSE ParseMembers(pos + 1, <<>>)
            [] OTHER -> ParseFail

\* What a call returns or raises.
Returned(v) == [st |-> "ok", v |-> v]
Raised(e) == [st |-> "raise", e |-> e]

\* json.loads(blob): TypeError on None, JSONDecodeError on malformed text.
Loads(blob) ==
  IF blob.k # "bytes" THEN Raised("TypeError")
  ELSE LET r == ParseValue(blob.b, 1)
       IN IF r.ok /\ r.next = Len(blob.b) + 1 THEN Returned(r.v)
          ELSE Raised("JSONDecodeError")


(***************************************************************************)
(* The environment: file names, the symlink layout, the files of the       *)
(* directory.  A path is a record, so that a temporary file's path differs *)
(* from every target's.                                                    *)
(***************************************************************************)
MaxUuid == 2
MaxDepth == 2
MaxWriters == 2
IoCap == 2
ChunkTokens == 3

Inst == {1, 2}
FileNames == {"a.json", "link.json"}
RealFiles == {"a.json"}
File(base) == [base |-> base]
TmpFile(u, base) == [uuid |-> u, base |-> base]
Names == {File(b) : b \in FileNames}
Targets == {File(b) : b \in RealFiles}
TmpFiles == {TmpFile(u, b) : u \in 1 .. MaxUuid, b \in FileNames}
Paths == Targets \cup TmpFiles

\* os.path.realpath: link.json is a symbolic link to a.json.
realpath(filename) == IF filename = "link.json" THEN "a.json" ELSE filename

\* The file a path names to open() and os.replace(), which follow the link.
Resolve(path) == IF path = File("link.json") THEN File("a.json") ELSE path

\* The documents the two instances assign (the values to_base() returns).
TreeA == Dict(<<Item(Str("a"), Num(1))>>)
TreeCollide == Dict(<<Item(Num(1), Str("x")), Item(Str("1"), Str("y"))>>)
TreeNested == List(<<Dict(<<Item(Num(2), Null)>>)>>)
TreeIntKey == Dict(<<Item(Num(1), Str("x"))>>)
DocTrees == [i \in Inst |-> IF i = 1 THEN {TreeA, TreeCollide} ELSE {TreeNested, TreeIntKey}]

\* Every tree of the pure-function checks: the flat mappings and sequences of
\* at most MaxItems entries, these nested twice in single-entry containers, and
\* the two-entry mappings over a few nested values.
MaxItems == 2
Leaves == {Null, Num(1), Str("x")}
Keys == {Num(1), Num(2), Str("1"), Str("a")}
SeqsUpTo(S, n) == UNION {[1 .. m -> S] : m \in 0 .. n}
DistinctKeys(pairs) ==
  \A j, k \in 1 .. Len(pairs) : j # k => pairs[j].k # pairs[k].k
DictsOver(V, n) ==
  {Dict(ps) : ps \in {q \in SeqsUpTo([k : Keys, v : V], n) : DistinctKeys(q)}}
ListsOver(V, n) == {List(xs) : xs \in SeqsUpTo(V, n)}
FlatTrees == DictsOver(Leaves, MaxItems) \cup ListsOver(Leaves, MaxItems)
NestedOnce == DictsOver(FlatTrees, 1) \cup ListsOver(FlatTrees, 1)
NestedTwice == DictsOver(NestedOnce, 1) \cup ListsOver(NestedOnce, 1)
MixedTrees == DictsOver(Leaves \cup {TreeNested, TreeIntKey}, 2)
TreeSet == FlatTrees \cup NestedOnce \cup NestedTwice \cup MixedTrees
RoundTripTrees == FlatTrees \cup MixedTrees

\* What an earlier run left in a file.
TreeBad == Dict(<<Item(Str("a"), List(<<Obj>>))>>)
ValidatedTrees == [i \in Inst |-> IF i = 1 THEN {TreeA, TreeBad} ELSE {TreeIntKey}]
TreeOld == Dict(<<Item(Str("old"), Num(0))>>)

VARIABLES
  self,      \* each instance's fields: _filename, _write_concern, _buffered, data
  name,      \* the filename each instance was constructed with
  disk,      \* every path's contents
  cache,     \* FileBuffer._cache
  counter,   \* the process-wide count of buffered scopes
  w,         \* the _write_to_file call in progress
  ret,       \* what the last _load returned or raised
  last,      \* the last operation that completed
  io,        \* since the outermost buffered scope began: the disk reads and
             \* writes of each file, the syncs, and the instance that synced last
  alive,     \* FALSE once the process died in a write: what follows are the
             \* reads of the process started after it
  others     \* the _write_to_file calls of other processes that are under way
             \* while the scheduler runs this one

vars == <<self, name, disk, cache, counter, w, ret, last, io, alive, others>>

NoEntry == [k |-> "absent"]
Entry(blob, hash, dirty) == [k |-> "entry", blob |-> blob, hash |-> hash, dirty |-> dirty]
NoCall == [st |-> "none"]
Idle == [pc |-> "idle"]
NoIo == [reads |-> [p \in Targets |-> 0], writes |-> [p \in Targets |-> 0],
         syncs |-> 0, synced |-> 0]
Brief(l) == [op |-> l.op, i |-> l.i, buffered |-> l.buffered]
NoPrev == [op |-> "none", i |-> 0, buffered |-> FALSE]
Op(op, i, buffered) ==
  [op |-> op, i |-> i, buffered |-> buffered, hit |-> FALSE, read |-> FALSE,
   err |-> "none", warned |-> 0, prev |-> NoPrev]
Bump(n) == IF n < IoCap THEN n + 1 ELSE n
CountRead(p) == IF counter > 0 THEN [io EXCEPT !.reads[Resolve(p)] = Bump(@)] ELSE io
CountWrite(p) == IF counter > 0 THEN [io EXCEPT !.writes[Resolve(p)] = Bump(@)] ELSE io

__init__no_realpath(filename, write_concern) ==
  [_filename |-> File(filename), _write_concern |-> write_concern,
   _buffered |-> 0, data |-> Null]

\* filename=None, and the _filename of a node constructed with it.
NoName == "None"
NoFile == [k |-> "None"]

\* JSONCollection.__init__: the fields of a new instance.
__init__(filename, write_concern) ==
  [_filename |-> IF filename = NoName THEN NoFile ELSE File(realpath(filename)),
   _write_concern |-> write_concern, _buffered |-> 0, data |-> Null]

\* _in_buffered_mode(): the global scope counter is positive.
_in_buffered_mode == counter > 0

\* FileBuffer._store_to_buffer: install the bytes, and their fingerprint if asked.
_store_to_buffer(filename, blob, store_hash) ==
  [cache EXCEPT ![filename] =
     Entry(blob, store_hash \/ (@.k = "entry" /\ @.hash),
           IF store_hash THEN (@.k = "entry" /\ @.dirty) ELSE TRUE)]

\* open(filename, 'rb') and read(): err is the I/O error the system answers with.
ReadFile(filename, err) ==
  IF err # "none" THEN Raised(err)
  ELSE IF disk[Resolve(filename)] = Missing THEN Raised("ENOENT")
  ELSE Returned(disk[Resolve(filename)])

_load_from_file_raises(i, err) ==
  LET r == ReadFile(self[i]._filename, err)
  IN IF r.st = "ok" THEN Returned(r.v) ELSE r

\* JSONCollection._load_from_file
_load_from_file(i, err) ==
  LET r == ReadFile(self[i]._filename, err)
  IN IF r.st = "ok" THEN Returned(r.v)
     ELSE IF r.e = "ENOENT" THEN Returned(Bytes(Dumps(Null)))
     ELSE Returned(None)

\* _load with the test of its first line decided: buffered.
LoadVia(i, err, buffered) ==
  LET fn == self[i]._filename
      hit == buffered /\ cache[fn].k = "entry"
      r == IF hit THEN Returned(cache[fn].blob) ELSE _load_from_file(i, err)
  IN /\ w.pc \in {"idle", "crashed"}
     /\ cache' = IF buffered /\ ~hit /\ r.st = "ok"
                   THEN _store_to_buffer(fn, r.v, TRUE) ELSE cache
     /\ ret' = IF r.st = "ok" THEN Loads(r.v) ELSE r
     /\ io' = IF hit THEN io ELSE CountRead(fn)
     /\ last' = [Op("load", i, buffered) EXCEPT
                   !.hit = hit, !.read = ~hit, !.err = IF hit THEN "none" ELSE err,
                   !.prev = IF last.op = "sync" THEN Brief(last) ELSE NoPrev]
     /\ UNCHANGED <<self, name, others, disk, counter, w, alive>>

_load_ignores_buffer(i, err) == LoadVia(i, err, FALSE)

\* JSONCollection._load
_load(i, err) == LoadVia(i, err, _in_buffered_mode \/ self[i]._buffered # 0)

_write_to_file_in_place(i, filename, blob, write_concern, uuid) ==
  LET f == Resolve(filename)
  IN /\ write_concern => uuid \in 1 .. MaxUuid
     /\ disk' = [disk EXCEPT ![f] = Bytes(<<>>)]
     /\ w' = [pc |-> "write", i |-> i, filename |-> filename, f |-> f, blob |-> blob,
              write_concern |-> FALSE, a |-> disk[Resolve(filename)]]
     /\ io' = CountWrite(filename)

\* _write_to_file, to the open() of the file it writes: the temporary file under
\* write_concern, else the target itself.  uuid is what uuid.uuid4() returns.
_write_to_file(i, filename, blob, write_concern, uuid) ==
  LET fn_tmp == TmpFile(uuid, filename.base)
      f == IF write_concern THEN fn_tmp ELSE Resolve(filename)
  IN /\ write_concern => uuid \in 1 .. MaxUuid
     /\ disk' = [disk EXCEPT ![f] = Bytes(<<>>)]
     /\ w' = [pc |-> "write", i |-> i, filename |-> filename, f |-> f, blob |-> blob,
              write_concern |-> write_concern, a |-> disk[Resolve(filename)]]
     /\ io' = IF write_concern THEN io ELSE CountWrite(filename)

\* _sync's two branches: the store in the buffer, and the write to the file.
SyncToBuffer(i, blob) ==
  /\ cache' = _store_to_buffer(self[i]._filename, blob, FALSE)
  /\ io' = IF counter > 0 THEN [io EXCEPT !.syncs = Bump(@), !.synced = i] ELSE io
  /\ last' = [Op("sync", i, TRUE) EXCEPT
                !.warned = _convert_key_to_str_warnings(self'[i].data)]

SyncToFile(i, blob, uuid) ==
  /\ _write_to_file(i, self[i]._filename, blob, self[i]._write_concern, uuid)
  /\ last' = [Op("syncing", i, FALSE) EXCEPT
                !.warned = _convert_key_to_str_warnings(self'[i].data)]

_sync_flag_only(i, tree, uuid) ==
  LET data == _convert_key_to_str(tree)
      blob == Bytes(Dumps(data))
  IN /\ w = Idle /\ alive
     /\ self' = [self EXCEPT ![i].data = tree]
     /\ ret' = NoCall
     /\ IF self[i]._buffered > 0
          THEN SyncToBuffer(i, blob) /\ UNCHANGED <<disk, w>>
          ELSE SyncToFile(i, blob, uuid) /\ UNCHANGED cache
     /\ UNCHANGED <<name, others, counter, alive>>

_sync_writes_through(i, tree, uuid) ==
  LET data == _convert_key_to_str(tree)
      blob == Bytes(Dumps(data))
  IN /\ w = Idle /\ alive
     /\ self' = [self EXCEPT ![i].data = tree]
     /\ ret' = NoCall
     /\ IF _in_buffered_mode \/ self[i]._buffered > 0
          THEN /\ cache' = _store_to_buffer(self[i]._filename, blob, FALSE)
               /\ SyncToFile(i, blob, uuid)
          ELSE SyncToFile(i, blob, uuid) /\ UNCHANGED cache
     /\ UNCHANGED <<name, others, counter, alive>>

\* A sync that raises before it reaches the file or the buffer.
SyncRaises(i, op, e) ==
  /\ ret' = Raised(e)
  /\ last' = Op(op, i, _in_buffered_mode \/ self[i]._buffered > 0)
  /\ UNCHANGED <<disk, cache, w, io>>

\* JSONCollection._sync, after the mutation that calls it set the data to tree.
_sync(i, tree, uuid) ==
  LET data == _convert_key_to_str(tree)
      blob == Bytes(Dumps(data))
  IN /\ w = Idle /\ alive
     /\ self' = [self EXCEPT ![i].data = tree]
     /\ IF ~Encodable(data)
          THEN SyncRaises(i, "failed", "TypeError")
          ELSE /\ ret' = NoCall
               /\ IF _in_buffered_mode \/ self[i]._buffered > 0
                    THEN SyncToBuffer(i, blob) /\ UNCHANGED <<disk, w>>
                    ELSE SyncToFile(i, blob, uuid) /\ UNCHANGED cache
     /\ UNCHANGED <<name, others, counter, alive>>

\* The validators registered on JSONCollection, and json_format_validator:
\* it fails on a tree that holds a value the JSON format has no form for.
json_format_validator(tree) == Encodable(tree)

_validators_none == {}

_validators == {"json_format_validator"}

\* sync(): every registered validator runs on the to_base() output; the first
\* that fails aborts the sync with a format error, the mutation staying in
\* memory; else the backend's _sync runs.
sync(i, tree, uuid) ==
  IF \A v \in _validators : json_format_validator(tree)
    THEN _sync(i, tree, uuid)
    ELSE /\ w = Idle /\ alive
         /\ self' = [self EXCEPT ![i].data = tree]
         /\ SyncRaises(i, "rejected", "FormatError")
         /\ UNCHANGED <<name, others, counter, alive>>

uuid4_fixed(base) == 1

\* uuid.uuid4(): a token that no file of the directory carries (the least such,
\* the tokens being interchangeable).
uuid4(base) ==
  IF \A u \in 1 .. MaxUuid : disk[TmpFile(u, base)] # Missing THEN 0
  ELSE CHOOSE u \in 1 .. MaxUuid :
         /\ disk[TmpFile(u, base)] = Missing
         /\ \A v \in 1 .. u - 1 : disk[TmpFile(v, base)] # Missing

\* The mutation of instance i that sets its data to tree, and the _sync it calls.
Assign(i, tree) == sync(i, tree, uuid4(self[i]._filename.base))

Load(i) == \E err \in {"none", "EACCES"} : _load(i, err)

\* _write_to_file: tmpfile.write(blob) or file.write(blob), the next chunk of
\* the blob reaching the file; the with block closes the file after the last.
_write_to_file_write ==
  LET n == IF Len(disk[w.f].b) + ChunkTokens < Len(w.blob.b)
             THEN Len(disk[w.f].b) + ChunkTokens ELSE Len(w.blob.b)
  IN
  /\ w.pc = "write"
  /\ disk' = [disk EXCEPT ![w.f] = Bytes(SubSeq(w.blob.b, 1, n))]
  /\ IF n < Len(w.blob.b)
       THEN UNCHANGED <<w, last>>
       ELSE IF w.write_concern
         THEN w' = [w EXCEPT !.pc = "replace"] /\ UNCHANGED last
         ELSE w' = Idle /\ last' = [last EXCEPT !.op = "sync"]
  /\ UNCHANGED <<self, name, others, cache, counter, ret, io, alive>>

_write_to_file_replace_copy ==
  /\ w.pc = "replace"
  /\ disk' = [disk EXCEPT ![Resolve(w.filename)] = disk[w.f]]
  /\ io' = CountWrite(w.filename)
  /\ w' = Idle
  /\ last' = [last EXCEPT !.op = "sync"]
  /\ UNCHANGED <<self, name, others, cache, counter, ret, alive>>

\* _write_to_file: os.replace(fn_tmp, filename)
_write_to_file_replace ==
  /\ w.pc = "replace"
  /\ disk' = [disk EXCEPT ![Resolve(w.filename)] = disk[w.f], ![w.f] = Missing]
  /\ io' = CountWrite(w.filename)
  /\ w' = Idle
  /\ last' = [last EXCEPT !.op = "sync"]
  /\ UNCHANGED <<self, name, others, cache, counter, ret, alive>>

\* The process dies inside _write_to_file: the files stay as they are, and the
\* process started after it builds everything in memory anew.
Crash ==
  /\ w.pc \in {"write", "replace"}
  /\ alive' = FALSE
  /\ self' = [i \in Inst |-> __init__(name[i], self[i]._write_concern)]
  /\ cache' = [p \in Names |-> NoEntry]
  /\ counter' = 0
  /\ w' = [w EXCEPT !.pc = "crashed"]
  /\ ret' = NoCall
  /\ io' = NoIo
  /\ last' = Op("crash", w.i, FALSE)
  /\ UNCHANGED <<name, others, disk>>

\* The flush at the end of buffering: each dirty entry among ps is written to
\* its file once, and the entries are dropped.
Dirty(p) == cache[p].k = "entry" /\ cache[p].dirty /\ cache[p].blob.k = "bytes"

Flushed(ps) ==
  [p \in Paths |->
     IF \E q \in ps : Resolve(q) = p /\ Dirty(q)
       THEN cache[CHOOSE q \in ps : Resolve(q) = p /\ Dirty(q)].blob
       ELSE disk[p]]

Dropped(ps) == [p \in Names |-> IF p \in ps THEN NoEntry ELSE cache[p]]

\* Entering a buffered scope: the process-wide counter goes up.
EnterBuffered ==
  /\ w = Idle /\ alive
  /\ counter < MaxDepth
  /\ counter' = counter + 1
  /\ io' = IF counter = 0 THEN NoIo ELSE io
  /\ ret' = NoCall
  /\ last' = Op("enter", 0, TRUE)
  /\ UNCHANGED <<self, name, others, disk, cache, w, alive>>

\* Leaving a buffered scope: the counter goes down, and the outermost exit flushes.
ExitBuffered ==
  /\ w = Idle
  /\ counter > 0
  /\ counter' = counter - 1
  /\ IF counter = 1
       THEN disk' = Flushed(Names) /\ cache' = Dropped(Names) /\ io' = NoIo
       ELSE UNCHANGED <<disk, cache, io>>
  /\ ret' = NoCall
  /\ last' = Op("exit", 0, counter > 1)
  /\ UNCHANGED <<self, name, others, w, alive>>

\* The per-instance buffering flag, set and cleared.
EnterLocal(i) ==
  /\ w = Idle /\ alive
  /\ self[i]._buffered = 0
  /\ self' = [self EXCEPT ![i]._buffered = 1]
  /\ ret' = NoCall
  /\ last' = Op("enterlocal", i, TRUE)
  /\ UNCHANGED <<name, others, disk, cache, counter, w, io, alive>>

ExitLocal(i) ==
  /\ w = Idle
  /\ self[i]._buffered = 1
  /\ self' = [self EXCEPT ![i]._buffered = 0]
  /\ IF counter = 0
       THEN /\ disk' = Flushed({self[i]._filename})
            /\ cache' = Dropped({self[i]._filename})
       ELSE UNCHANGED <<disk, cache>>
  /\ ret' = NoCall
  /\ last' = Op("exitlocal", i, counter > 0)
  /\ UNCHANGED <<name, others, counter, w, io, alive>>

Init ==
  /\ name = [i \in Inst |-> IF i = 1 THEN "a.json" ELSE "link.json"]
  /\ \E wc \in [Inst -> BOOLEAN] : self = [i \in Inst |-> __init__(name[i], wc[i])]
  /\ disk \in {d \in [Paths -> {Missing, Bytes(Dumps(TreeOld))}] :
                 \A p \in TmpFiles : d[p] = Missing}
  /\ cache = [p \in Names |-> NoEntry]
  /\ counter = 0
  /\ w = Idle
  /\ ret = NoCall
  /\ last = [op |-> "init", i |-> 0, buffered |-> FALSE, hit |-> FALSE, read |-> FALSE,
             err |-> "none", warned |-> 0, prev |-> NoPrev]
  /\ io = NoIo
  /\ alive = TRUE
  /\ others = {}

Next ==
  \/ \E i \in Inst : \E tree \in DocTrees[i] : Assign(i, tree)
  \/ \E i \in Inst : Load(i)
  \/ _write_to_file_write
  \/ _write_to_file_replace
  \/ Crash
  \/ EnterBuffered
  \/ ExitBuffered
  \/ \E i \in Inst : EnterLocal(i)
  \/ \E i \in Inst : ExitLocal(i)

Spec == Init /\ [][Next]_vars

(***************************************************************************)
(* Durable writers of several processes on one target.  One _write_to_file *)
(* call runs at a time; the scheduler sets a call under way aside and      *)
(* lets another process start a call, continue one, or read the file.      *)
(***************************************************************************)
InitWriters == Init /\ \A i \in Inst : self[i]._write_concern

Running == IF w.pc \in {"write", "replace"} THEN {w} ELSE {}

Suspend ==
  /\ w.pc \in {"write", "replace"}
  /\ Cardinality(others) < MaxWriters - 1
  /\ others' = others \cup {w}
  /\ w' = Idle
  /\ UNCHANGED <<self, name, disk, cache, counter, ret, last, io, alive>>

Resume(r) ==
  /\ w = Idle
  /\ r \in others
  /\ others' = others \ {r}
  /\ w' = r
  /\ ret' = NoCall
  /\ last' = Op("syncing", r.i, FALSE)
  /\ UNCHANGED <<self, name, disk, cache, counter, io, alive>>

NextWriters ==
  \/ \E i \in Inst : \E tree \in DocTrees[i] : Assign(i, tree)
  \/ \E i \in Inst : Load(i)
  \/ _write_to_file_write
  \/ _write_to_file_replace
  \/ Suspend
  \/ \E r \in others : Resume(r)

SpecWriters == InitWriters /\ [][NextWriters]_vars

(***************************************************************************)
(* A document with a nested child node: the mapping under ChildKey of the  *)
(* document of instance Owner is wrapped by a node of its own, constructed *)
(* without a filename, whose parent is the root.                           *)
(***************************************************************************)
Owner == 1
ChildKey == Str("c")
ChildNode == __init__(NoName, FALSE)
ChildTrees == {TreeA, TreeIntKey, List(<<Num(1)>>)}

\* to_base() of the root: the complete document, the child's contents in it.
to_base(sub) == Dict(<<Item(ChildKey, sub)>>)

AssignChild_subtree(tree) ==
  sync(Owner, tree, uuid4(self[Owner]._filename.base))

\* A mutation on the child that sets its contents to tree: sync() walks up to
\* the root, which syncs the complete document once.
AssignChild(tree) ==
  sync(Owner, to_base(tree), uuid4(self[Owner]._filename.base))

NextNodes ==
  \/ \E tree \in ChildTrees : AssignChild(tree)
  \/ \E i \in Inst : Load(i)
  \/ _write_to_file_write
  \/ _write_to_file_replace
  \/ EnterBuffered
  \/ ExitBuffered
  \/ EnterLocal(Owner)
  \/ ExitLocal(Owner)

SpecNodes == Init /\ [][NextNodes]_vars

(***************************************************************************)
(* Documents that are assigned values the JSON format cannot hold, among   *)
(* others, in buffered scopes and outside them.                            *)
(***************************************************************************)
NextValidated ==
  \/ \E i \in Inst : \E tree \in ValidatedTrees[i] : Assign(i, tree)
  \/ \E i \in Inst : Load(i)
  \/ _write_to_file_write
  \/ _write_to_file_replace
  \/ EnterBuffered
  \/ ExitBuffered

SpecValidated == Init /\ [][NextValidated]_vars

(***************************************************************************)
(* The round trip of one document: instance 1 holds a tree in memory, its  *)
(* file does not exist yet, and the tree is synced and loaded back, in a   *)
(* buffered scope or not.                                                  *)
(***************************************************************************)
InitTrees ==
  /\ name = [i \in Inst |-> IF i = 1 THEN "a.json" ELSE "link.json"]
  /\ \E wc \in BOOLEAN : \E tree \in RoundTripTrees :
       self = [i \in Inst |->
                 IF i = 1 THEN [__init__(name[i], wc) EXCEPT !.data = tree]
                 ELSE __init__(name[i], wc)]
  /\ disk = [p \in Paths |-> Missing]
  /\ cache = [p \in Names |-> NoEntry]
  /\ counter = 0
  /\ w = Idle
  /\ ret = NoCall
  /\ last = [op |-> "init", i |-> 0, buffered |-> FALSE, hit |-> FALSE, read |-> FALSE,
             err |-> "none", warned |-> 0, prev |-> NoPrev]
  /\ io = NoIo
  /\ alive = TRUE
  /\ others = {}

\* A mutation that leaves the tree as it is (an item set to its own value), and
\* the _sync it calls.
Resync == Assign(1, self[1].data)

NextTrees ==
  \/ Resync
  \/ Load(1)
  \/ _write_to_file_write
  \/ _write_to_file_replace
  \/ EnterBuffered

SpecTrees == InitTrees /\ [][NextTrees]_vars

(***************************************************************************)
(* _convert_key_to_str alone, on every tree of TreeSet.                    *)
(***************************************************************************)
InitConv ==
  /\ name = [i \in Inst |-> IF i = 1 THEN "a.json" ELSE "link.json"]
  /\ \E tree \in TreeSet :
       self = [i \in Inst |->
                 IF i = 1 THEN [__init__(name[i], FALSE) EXCEPT !.data = tree]
                 ELSE __init__(name[i], FALSE)]
  /\ disk = [p \in Paths |-> Missing]
  /\ cache = [p \in Names |-> NoEntry]
  /\ counter = 0
  /\ w = Idle
  /\ ret = NoCall
  /\ last = [op |-> "init", i |-> 0, buffered |-> FALSE, hit |-> FALSE, read |-> FALSE,
             err |-> "none", warned |-> 0, prev |-> NoPrev]
  /\ io = NoIo
  /\ alive = TRUE
  /\ others = {}

\* The first two statements of _sync: data = self.to_base() and
\* data = _convert_key_to_str(data), with the warnings the call made.
Convert ==
  /\ last.op = "init"
  /\ ret' = Returned(_convert_key_to_str(self[1].data))
  /\ last' = [Op("convert", 1, FALSE) EXCEPT
                !.warned = _convert_key_to_str_warnings(self[1].data)]
  /\ UNCHANGED <<self, name, others, disk, cache, counter, w, io, alive>>

SpecConv == InitConv /\ [][Convert]_vars

(***************************************************************************)
(* The claims.                                                             *)
(***************************************************************************)
Target == File("a.json")

\* The blob _sync makes of instance i's data.
Serialized(i) == Bytes(Dumps(_convert_key_to_str(self[i].data)))

\* The step that starts _sync on instance i.
SyncStep(i) ==
  /\ w = Idle /\ alive
  /\ last' # last /\ last'.i = i /\ last'.op \in {"sync", "syncing"}

\* C1: a durable-mode write of blob B over contents A leaves the target
\* holding exactly A until os.replace completes, also when the process dies
\* while it writes the temporary file (the next read returns A, or the null
\* document if there was no file), and exactly B once the write has returned.
C1_DurableWriteAtomic ==
  /\ (w.pc \in {"write", "replace", "crashed"} /\ self[w.i]._write_concern)
       => disk[Resolve(w.filename)] = w.a
  /\ (w.pc = "crashed" /\ self[w.i]._write_concern /\ last.op = "load"
      /\ last.err = "none")
       => ret = IF w.a = Missing THEN Returned(Null) ELSE Loads(w.a)
  /\ (w = Idle /\ last.op = "sync" /\ ~last.buffered /\ self[last.i]._write_concern)
       => disk[Target] = Serialized(last.i)

C1_Witness ==
  /\ w.pc = "crashed" /\ self[w.i]._write_concern
  /\ w.a = Bytes(Dumps(TreeOld))
  /\ disk[w.f] # Missing /\ Len(disk[w.f].b) > 0 /\ disk[w.f] # w.blob
  /\ ret = Returned(TreeOld)

\* C2: a load that finds no file (and, when buffered, no buffer entry) returns
\* the null document and raises nothing, buffered or not.
C2_MissingFileLoadsNull ==
  (last.op = "load" /\ last.read /\ last.err = "none" /\ disk[Target] = Missing)
    => ret = Returned(Null)

C2_Witness ==
  /\ last.op = "load" /\ last.buffered /\ last.read /\ last.err = "none"
  /\ disk[Target] = Missing /\ ret = Returned(Null)

\* C3: when reading the file fails with an I/O error other than file-not-found,
\* the load raises that same error to its caller.
C3_IOErrorPropagates ==
  (last.op = "load" /\ last.read /\ last.err # "none") => ret = Raised(last.err)

\* C4: in buffered mode every _sync stores the serialized document in the
\* buffer entry of the collection's path and leaves every file as it was.
C4_BufferedSyncKeepsDisk ==
  [][\A i \in Inst :
       (SyncStep(i) /\ (counter > 0 \/ self[i]._buffered > 0))
         => /\ disk' = disk
            /\ cache'[self[i]._filename].k = "entry"
            /\ cache'[self[i]._filename].blob = Bytes(Dumps(_convert_key_to_str(self'[i].data)))]_vars

C4_Witness ==
  /\ last.op = "sync" /\ last.buffered
  /\ disk[Target] = Bytes(Dumps(TreeOld))
  /\ cache[Target].k = "entry" /\ cache[Target].blob = Serialized(last.i)

\* C5: a buffered _load on a path with a buffer entry returns the deserialized
\* entry and reads no file; on a path without one it reads the file once and
\* stores the bytes read as the entry, which every later load then uses.
C5_BufferedLoad ==
  (last.op = "load" /\ last.buffered)
    => LET e == cache[self[last.i]._filename]
       IN /\ e.k = "entry" /\ e.blob.k = "bytes"
          /\ ret.st = "ok" /\ ret = Loads(e.blob)
          /\ last.hit => ~last.read
          /\ ~last.hit
               => /\ last.read
                  /\ e.blob = IF disk[Target] = Missing THEN Bytes(Dumps(Null))
                              ELSE disk[Target]
          /\ counter > 0 => io.reads[Target] <= 1

\* C6: in a buffered scope a load that follows N >= 1 syncs returns what the
\* last sync serialized, and the scope has read the file at most once and
\* written it not at all.
C6_BufferCoalescing ==
  counter > 0
    => /\ io.reads[Target] <= 1
       /\ io.writes[Target] = 0
       /\ (last.op = "load" /\ last.prev.op = "sync")
            => ret = Returned(_convert_key_to_str(self[last.prev.i].data))

C6_Witness ==
  /\ counter > 0 /\ io.syncs >= 2 /\ io.reads[Target] = 1
  /\ last.op = "load" /\ last.prev.op = "sync" /\ ret.st = "ok"
  /\ disk[Target] # Serialized(last.prev.i)

\* C7: scopes nest by counter: while a scope stays open across a step no file
\* changes and no write is under way, whatever inner scopes were left; with no
\* scope open (and the instance's own flag clear) a sync writes the file.
C7_ScopesNestByCounter ==
  [][/\ (counter > 0 /\ counter' > 0) => (disk' = disk /\ w' = Idle)
     /\ \A i \in Inst :
          (SyncStep(i) /\ counter = 0 /\ self[i]._buffered = 0)
            => (w'.pc = "write" /\ cache' = cache)]_vars

C7_Witness ==
  /\ last.op = "exit" /\ counter = 1 /\ io.syncs >= 1
  /\ cache[Target].k = "entry" /\ cache[Target].dirty
  /\ disk[Target] # cache[Target].blob

\* C8: two instances on names of one real path share one buffer key, and in a
\* buffered scope a load through one returns the last sync through the other.
C8_SharedBufferEntry ==
  /\ self[1]._filename = self[2]._filename
  /\ (counter > 0 /\ last.op = "load" /\ io.synced # 0 /\ io.synced # last.i)
       => ret = Returned(_convert_key_to_str(self[io.synced].data))

C8_Witness ==
  /\ counter > 0 /\ last.op = "load" /\ last.i = 1 /\ io.synced = 2
  /\ name[1] # name[2]
  /\ ret = Returned(_convert_key_to_str(TreeIntKey))

\* The string form of a key, and a tree with each key replaced by its string
\* form, entry by entry.
StrForm(key) == IF key.t = "str" THEN key ELSE Str(IntToStr[key.i])

RECURSIVE KeyReplaced(_)
KeyReplaced(tree) ==
  IF tree.t = "dict"
    THEN Dict([j \in 1 .. Len(tree.pairs) |->
                 Item(StrForm(tree.pairs[j].k), KeyReplaced(tree.pairs[j].v))])
    ELSE IF tree.t = "list"
      THEN List([j \in 1 .. Len(tree.items) |-> KeyReplaced(tree.items[j])])
      ELSE tree

\* The entries of one mapping that carry the same key made one: the entry
\* stands where the first stood and holds the value of the last.
MergeKeys(pairs) ==
  LET firsts == {j \in 1 .. Len(pairs) : \A i \in 1 .. j - 1 : pairs[i].k # pairs[j].k}
      nth(n) == CHOOSE j \in firsts : Cardinality({i \in firsts : i < j}) = n - 1
      lastOf(k) == CHOOSE j \in 1 .. Len(pairs) :
                     /\ pairs[j].k = k
                     /\ \A i \in j + 1 .. Len(pairs) : pairs[i].k # k
  IN [n \in 1 .. Cardinality(firsts) |-> Item(pairs[nth(n)].k, pairs[lastOf(pairs[nth(n)].k)].v)]

RECURSIVE Merged(_)
Merged(tree) ==
  IF tree.t = "dict"
    THEN Dict(MergeKeys([j \in 1 .. Len(tree.pairs) |->
                           Item(tree.pairs[j].k, Merged(tree.pairs[j].v))]))
    ELSE IF tree.t = "list"
      THEN List([j \in 1 .. Len(tree.items) |-> Merged(tree.items[j])])
      ELSE tree

RECURSIVE AllKeysStr(_)
AllKeysStr(tree) ==
  IF tree.t = "dict"
    THEN \A j \in 1 .. Len(tree.pairs) :
           tree.pairs[j].k.t = "str" /\ AllKeysStr(tree.pairs[j].v)
    ELSE IF tree.t = "list"
      THEN \A j \in 1 .. Len(tree.items) : AllKeysStr(tree.items[j])
      ELSE TRUE

RECURSIVE NonStrKeys(_)
NonStrKeys(tree) ==
  IF tree.t = "dict"
    THEN LET RECURSIVE Sum(_)
             Sum(j) == IF j > Len(tree.pairs) THEN 0
                       ELSE (IF tree.pairs[j].k.t = "str" THEN 0 ELSE 1)
                            + NonStrKeys(tree.pairs[j].v) + Sum(j + 1)
         IN Sum(1)
    ELSE IF tree.t = "list"
      THEN LET RECURSIVE Sum(_)
               Sum(j) == IF j > Len(tree.items) THEN 0
                         ELSE NonStrKeys(tree.items[j]) + Sum(j + 1)
           IN Sum(1)
      ELSE 0

\* A sync of the tree by the instance that then loads, the read succeeding.
LoadedAfterOwnSync ==
  last.op = "load" /\ last.prev.op = "sync" /\ last.prev.i = last.i /\ last.err = "none"

\* C9: a sync of T to a fresh document and a load return T with each
\* non-string key replaced by its string form, in fast, durable and buffered
\* mode alike.
C9_RoundTrip ==
  LoadedAfterOwnSync => ret = Returned(KeyReplaced(self[last.i].data))

\* What the load returns instead: the entries of one mapping whose keys have
\* the same string form have become one, which holds the value of the last.
RoundTripMerged ==
  LoadedAfterOwnSync => ret = Returned(Merged(KeyReplaced(self[last.i].data)))

\* C10: _convert_key_to_str returns a tree of the same shape in which every
\* key at every depth is a string, each key replaced by its string form, string
\* keys and leaves unchanged, and warns once for each non-string key.
C10_ConvertKeyToStr ==
  last.op = "convert"
    => /\ ret = Returned(KeyReplaced(self[1].data))
       /\ AllKeysStr(ret.v)
       /\ last.warned = NonStrKeys(self[1].data)

\* What _convert_key_to_str returns instead: the same, with the entries of one
\* mapping whose keys have the same string form merged into one.
ConvertMerged ==
  last.op = "convert"
    => /\ ret = Returned(Merged(KeyReplaced(self[1].data)))
       /\ AllKeysStr(ret.v)
       /\ last.warned = NonStrKeys(self[1].data)

\* The step in which instance i attempts a sync of a tree that holds a value
\* json cannot encode.
BadSyncStep(i) ==
  /\ w = Idle /\ alive
  /\ last' # last /\ last'.i = i /\ last'.op \in {"sync", "syncing", "failed", "rejected"}
  /\ ~Encodable(self'[i].data)

\* C11: a sync of a tree that holds a value the backend cannot encode fails
\* with a format error; the file and the buffer entry hold what they held
\* before, and the tree in memory is the mutated one.
C11_RejectedSyncKeepsPersisted ==
  [][\A i \in Inst :
       BadSyncStep(i)
         => /\ ret' = Raised("FormatError")
            /\ disk' = disk /\ cache' = cache /\ w' = w
            /\ self'[i].data = TreeBad]_vars

C11_Witness ==
  /\ last.op = "rejected" /\ last.i = 1 /\ ret = Raised("FormatError")
  /\ self[1].data = TreeBad
  /\ counter > 0 /\ cache[Target].k = "entry" /\ cache[Target].blob = Bytes(Dumps(TreeA))
  /\ disk[Target] = Bytes(Dumps(TreeOld))

\* What a file holds when no write to it is cut short: nothing, what an
\* earlier run left, or the whole blob of a document.
WholeContents ==
  {Missing, Bytes(Dumps(TreeOld))}
    \cup {Bytes(Dumps(_convert_key_to_str(t))) : t \in UNION {DocTrees[i] : i \in Inst}}

\* C12: durable writers of several processes on one target, in any
\* interleaving: the temporary paths of the calls under way differ from the
\* target and from each other; the target holds the original or the whole blob
\* of one writer, and a read of it decodes; the target changes only in a
\* replace, to the blob of the writer that replaces, so the last replace wins.
C12_ConcurrentDurableWriters ==
  [][/\ \A r \in others' \cup Running' :
          /\ r.f \in TmpFiles /\ r.f # Resolve(r.filename)
          /\ \A q \in others' \cup Running' : q # r => q.f # r.f
     /\ disk'[Target] \in WholeContents
     /\ (last'.op = "load" /\ last'.err = "none") => ret'.st = "ok"
     /\ IF w.pc = "replace" /\ w' = Idle /\ others' = others
          THEN disk'[Target] = w.blob
          ELSE disk'[Target] = disk[Target]]_vars

C12_Witness ==
  /\ others # {} /\ w.pc = "replace" /\ disk[w.f] = w.blob
  /\ disk[Target] \notin {Missing, Bytes(Dumps(TreeOld)), w.blob}
  /\ \A r \in others : r.pc = "replace" /\ r.blob # disk[Target] /\ r.blob # w.blob

\* The step in which a durable _write_to_file returns.
ReplaceStep == w.pc = "replace" /\ w' = Idle /\ others' = others

\* C13: when a durable write returns, the temporary file it made is gone:
\* the directory holds the target with the new contents and no file named
\* ._<token>_<basename>.
C13_TmpFileRemoved ==
  [][ReplaceStep
       => /\ disk'[w.f] = Missing
          /\ disk'[Resolve(w.filename)] = w.blob
          /\ \A p \in TmpFiles : disk'[p] = Missing]_vars

C13_Witness ==
  /\ w = Idle /\ alive /\ last.op = "sync" /\ ~last.buffered
  /\ self[last.i]._write_concern
  /\ disk[Target] = Serialized(last.i) /\ disk[Target] # Bytes(Dumps(TreeOld))
  /\ \A p \in TmpFiles : disk[p] = Missing

\* The step that is a _load of instance i.
LoadStep(i) == last' # last /\ last'.op = "load" /\ last'.i = i

\* What a read of the target, with no I/O error, decodes to.
DiskValue == IF disk[Target] = Missing THEN Returned(Null) ELSE Loads(disk[Target])

\* C14: _load and _sync go through the buffer exactly when the scope counter
\* is positive or the instance's own flag is set; with neither, _load reads
\* the file and _sync starts a write of the target, and no buffer entry is
\* read (a load returns what the file holds, whatever an entry of its path
\* holds), made or changed.
C14_BufferedPredicate ==
  [][\A i \in Inst :
       LET active == counter > 0 \/ self[i]._buffered # 0
           fn == self[i]._filename
       IN /\ SyncStep(i)
               => IF active
                    THEN /\ last'.buffered /\ disk' = disk /\ w' = w
                         /\ cache'[fn].k = "entry" /\ cache'[fn].dirty
                    ELSE /\ ~last'.buffered /\ cache' = cache
                         /\ w'.pc = "write" /\ w'.filename = fn
          /\ (LoadStep(i) /\ alive)
               => IF active
                    THEN /\ last'.buffered /\ cache'[fn].k = "entry"
                         /\ last'.hit = (cache[fn].k = "entry")
                         /\ last'.read = ~last'.hit
                    ELSE /\ ~last'.buffered /\ last'.read /\ ~last'.hit /\ cache' = cache
                         /\ (last'.err = "none" /\ cache[fn].k = "entry")
                              => ret' = DiskValue]_vars

C14_Witness ==
  /\ last.op = "load" /\ ~last.buffered /\ last.read /\ last.err = "none"
  /\ counter = 0 /\ self[last.i]._buffered = 0
  /\ \E p \in Names : cache[p].k = "entry" /\ cache[p].blob.k = "bytes"
                      /\ Loads(cache[p].blob) # ret
  /\ ret = Loads(disk[Target])

\* A file cut short in a write of blob: it holds a strict prefix of it.
StrictPrefix(t, blob) ==
  /\ t.k = "bytes" /\ Len(t.b) < Len(blob.b)
  /\ t.b = SubSeq(blob.b, 1, Len(t.b))

\* C15: while a write that replaces A by B is under way, or was cut by a
\* crash, the target holds A or B in durable mode; in fast mode it may hold
\* neither, and then a strict prefix of B, which a reader finds.
C15_FastModePartialWrite ==
  w.pc \in {"write", "replace", "crashed"}
    => LET t == disk[Resolve(w.filename)]
       IN IF self[w.i]._write_concern
            THEN t \in {w.a, w.blob}
            ELSE t \in {w.a, w.blob} \/ StrictPrefix(t, w.blob)

C15_Witness ==
  /\ w.pc = "crashed" /\ ~self[w.i]._write_concern
  /\ disk[Target] \notin {w.a, w.blob} /\ StrictPrefix(disk[Target], w.blob)
  /\ Len(disk[Target].b) > 0 /\ w.a # Missing
  /\ last.op = "load" /\ last.err = "none" /\ ret = Raised("JSONDecodeError")

\* C16: a mutation on a nested child causes one backend sync, by the root
\* that owns the file, of the serialization of the complete document: one
\* store under the root's path when buffered, one write of the root's file
\* when not; the child has no filename, and nothing is written to a file or
\* buffer entry of its own.
C16_ChildSyncsThroughRoot ==
  [][SyncStep(Owner)
       => LET fn == self[Owner]._filename
              whole == Bytes(Dumps(_convert_key_to_str(self'[Owner].data)))
          IN /\ self'[Owner].data \in {to_base(t) : t \in ChildTrees}
             /\ IF counter > 0 \/ self[Owner]._buffered > 0
                  THEN /\ cache'[fn] = Entry(whole, cache[fn].k = "entry" /\ cache[fn].hash, TRUE)
                       /\ \A p \in Names \ {fn} : cache'[p] = cache[p]
                       /\ disk' = disk /\ w' = Idle
                  ELSE /\ w'.pc = "write" /\ w'.filename = fn /\ w'.blob = whole
                       /\ cache' = cache
                       /\ \A p \in Paths \ {w'.f} : disk'[p] = disk[p]
             /\ ChildNode._filename = NoFile /\ fn # NoFile
             /\ NoFile \notin DOMAIN cache' /\ NoFile \notin DOMAIN disk']_vars

C16_Witness ==
  /\ last.op = "load" /\ last.prev.op = "sync" /\ ~last.buffered
  /\ self[Owner].data = to_base(TreeIntKey)
  /\ disk[Target] = Bytes(Dumps(to_base(_convert_key_to_str(TreeIntKey))))
  /\ ret = Returned(to_base(_convert_key_to_str(TreeIntKey)))

\* C17: _load and _sync of one instance decide alike: no reachable counter and
\* _buffered make the truthiness test of _load and the > 0 test of _sync
\* differ, and a load that follows a sync of its instance takes the path
\* (buffer or file) the sync took.
C17_LoadSyncSameDecision ==
  /\ \A i \in Inst :
       (_in_buffered_mode \/ self[i]._buffered # 0)
         <=> (_in_buffered_mode \/ self[i]._buffered > 0)
  /\ (last.op = "load" /\ last.prev.op = "sync" /\ last.prev.i = last.i)
       => last.buffered = last.prev.buffered

C17_Witness ==
  /\ last.op = "load" /\ last.prev.op = "sync" /\ last.prev.i = last.i
  /\ last.buffered /\ last.hit
  /\ counter = 0 /\ self[last.i]._buffered = 1
  /\ ret = Returned(_convert_key_to_str(self[last.i].data))

\* C18: every buffer entry holds bytes that decode as JSON text, whatever
\* loads and syncs came before, a buffered load whose read failed with an I/O
\* error other than file-not-found among them.
C18_BufferEntriesAreBytes ==
  \A p \in Names :
    cache[p].k = "entry"
      => cache[p].blob.k = "bytes" /\ Loads(cache[p].blob).st = "ok"

\* The mappings of the output have as many entries as those of the input, at
\* every depth.
RECURSIVE SameEntryCounts(_, _)
SameEntryCounts(in, out) ==
  IF in.t = "dict"
    THEN /\ out.t = "dict" /\ Len(out.pairs) = Len(in.pairs)
         /\ \A j \in 1 .. Len(in.pairs) : SameEntryCounts(in.pairs[j].v, out.pairs[j].v)
    ELSE IF in.t = "list"
      THEN /\ out.t = "list" /\ Len(out.items) = Len(in.items)
           /\ \A j \in 1 .. Len(in.items) : SameEntryCounts(in.items[j], out.items[j])
      ELSE TRUE

\* C19: _convert_key_to_str loses no entries: every mapping of the output has
\* as many entries as the mapping of the input it was made from.
C19_NoEntriesLost ==
  last.op = "convert" => SameEntryCounts(self[1].data, ret.v)
====
